---- MODULE Spec2Model ----
(***************************************************************************)
(* Model of dcf.py: the discounted-cash-flow engine CalculateDCFDensity,   *)
(* the four Yahoo Finance providers and the main program that calls them.  *)
(*                                                                         *)
(* Numbers.  Python floats are modelled as exact decimal-scaled rationals  *)
(* [n, d, e] standing for (n / d) * 10^e, kept in a unique normal form     *)
(* (d > 0, gcd(n, d) = 1, d coprime to 10, n not a multiple of 10, zero    *)
(* is [0, 1, 0]).  Binary rounding of IEEE doubles is not modelled; what   *)
(* is modelled is which operations run, in which order, and which of them  *)
(* raise (list indexing out of range, float division by zero).             *)
(***************************************************************************)
EXTENDS Integers, Sequences, FiniteSets, TLC

----------------------------------------------------------------------------
(* Exact arithmetic standing for Python's float operators.                 *)

Abs(x) == IF x < 0 THEN -x ELSE x

RECURSIVE Gcd(_, _)
Gcd(a, b) == IF b = 0 THEN a ELSE Gcd(b, a % b)

RECURSIVE Pow10(_)
Pow10(k) == IF k <= 0 THEN 1 ELSE 10 * Pow10(k - 1)

Num(n, d, e) == [n |-> n, d |-> d, e |-> e]

Zero == Num(0, 1, 0)

One == Num(1, 1, 0)

(* Moves the factors 2 and 5 of the denominator into the decimal exponent. *)
RECURSIVE ClearDen(_, _, _)
ClearDen(n, d, e) ==
    IF d % 2 = 0 THEN ClearDen(n * 5, d \div 2, e - 1)
    ELSE IF d % 5 = 0 THEN ClearDen(n * 2, d \div 5, e - 1)
    ELSE Num(n, d, e)

(* Moves the factors 10 of a non-zero numerator into the decimal exponent. *)
RECURSIVE StripTens(_, _, _)
StripTens(n, d, e) ==
    IF n % 10 = 0 THEN StripTens(n \div 10, d, e + 1) ELSE Num(n, d, e)

(* Normal form of (n / d) * 10^e, d # 0. *)
Norm(n, d, e) ==
    IF n = 0 THEN Zero
    ELSE LET s == IF d < 0 THEN -1 ELSE 1
             g == Gcd(Abs(n), Abs(d))
             c == ClearDen((s * n) \div g, (s * d) \div g, e)
         IN  StripTens(c.n, c.d, c.e)

FromInt(i) == Norm(i, 1, 0)

Add(a, b) ==
    IF a.n = 0 THEN b
    ELSE IF b.n = 0 THEN a
    ELSE LET m == IF a.e < b.e THEN a.e ELSE b.e
         IN  Norm(a.n * Pow10(a.e - m) * b.d + b.n * Pow10(b.e - m) * a.d,
                  a.d * b.d, m)

Neg(a) == Num(-a.n, a.d, a.e)

Sub(a, b) == Add(a, Neg(b))

Mul(a, b) == Norm(a.n * b.n, a.d * b.d, a.e + b.e)

(* a / b for b # 0; Python raises ZeroDivisionError when b = 0, which the  *)
(* callers below decide before they divide.                                *)
Div(a, b) == Norm(a.n * b.d, a.d * b.n, a.e - b.e)

IsZero(a) == a.n = 0

(* a ** k for an int k >= 1 (the exponents are entries of tlist). *)
RECURSIVE Pow(_, _)
Pow(a, k) == IF k <= 0 THEN One ELSE Mul(a, Pow(a, k - 1))

RECURSIVE SumSeq(_)
SumSeq(s) == IF s = << >> THEN Zero ELSE Add(SumSeq(SubSeq(s, 1, Len(s) - 1)), s[Len(s)])

Last(s) == s[Len(s)]

RECURSIVE Reverse(_)
Reverse(s) == IF s = << >> THEN << >> ELSE Append(Reverse(Tail(s)), Head(s))

----------------------------------------------------------------------------
(* CalculateDCFDensity, dcf.py lines 23-48.                                *)

(* tlist = list(range(1, periodForwards + 2)): empty when periodForwards   *)
(* is -1 or less.                                                          *)
(* Variant: range(1, periodForwards + 1), one entry short. *)
tlistShort(periodForwards) == [i \in 1..periodForwards |-> i]

tlist(periodForwards) == [i \in 1..(periodForwards + 1) |-> i]

(* Variant: fcf[0], the oldest entry instead of the newest. *)
fcf0Oldest(fcf) == fcf[1]

(* fcf0 = fcf[-1] *)
fcf0(fcf) == Last(fcf)

(* The caller's list after the call: the function only reads fcf[-1]. *)
fcfAfterCall(fcf) == fcf

(* Number of explicit entries of ffcf: one append before the loop and one  *)
(* per iteration of range(1, periodForwards).                              *)
ExplicitYears(periodForwards) == IF periodForwards > 1 THEN periodForwards ELSE 1

(* Variant: grow-then-seed, the first explicit year is the seed itself. *)
ProjectedFromSeed(seed, growthRate, k) == Mul(seed, Pow(Add(One, growthRate), k - 1))

(* ffcf[k-1] for an explicit year k: the seed append of line 31 for k = 1, *)
(* the loop's append of line 36 after it.                                  *)
RECURSIVE Projected(_, _, _)
Projected(seed, growthRate, k) ==
    IF k <= 1 THEN Mul(seed, Add(One, growthRate))
    ELSE Mul(Projected(seed, growthRate, k - 1), Add(One, growthRate))

(* ffcf[-1] * (1 + perpetualGrowthRate)/(discountRate - perpetualGrowthRate) *)
TerminalValue(lastProjected, perpetualGrowthRate, discountRate) ==
    Div(Mul(lastProjected, Add(One, perpetualGrowthRate)),
        Sub(discountRate, perpetualGrowthRate))

(* ffcf once line 39 has run: the explicit years, then the terminal value. *)
ffcf(fcf, periodForwards, growthRate, perpetualGrowthRate, discountRate) ==
    LET explicit == [k \in 1..ExplicitYears(periodForwards) |->
                        Projected(fcf0(fcf), growthRate, k)]
    IN  Append(explicit,
               TerminalValue(Last(explicit), perpetualGrowthRate, discountRate))

(* pvffcf once line 40 has run: entry i is discounted by tlist[i], the     *)
(* terminal value by tlist[-1].                                            *)
pvffcf(fcf, periodForwards, growthRate, perpetualGrowthRate, discountRate) ==
    LET f == ffcf(fcf, periodForwards, growthRate, perpetualGrowthRate, discountRate)
        t == tlist(periodForwards)
    IN  [i \in 1..Len(f) |->
            Div(f[i], Pow(Add(One, discountRate),
                          IF i < Len(f) THEN t[i] ELSE Last(t)))]

pvffcfSum(fcf, periodForwards, growthRate, perpetualGrowthRate, discountRate) ==
    SumSeq(pvffcf(fcf, periodForwards, growthRate, perpetualGrowthRate, discountRate))

equityValue(fcf, periodForwards, growthRate, perpetualGrowthRate, discountRate, totalCash, totalDebt) ==
    Sub(Add(pvffcfSum(fcf, periodForwards, growthRate, perpetualGrowthRate,
                      discountRate), totalCash), totalDebt)

Raised(error, line) == [kind |-> error, line |-> line]

Returned(value) == [kind |-> "return", value |-> value]

(* The outcome of a call: the first statement that raises decides it.      *)
CalculateDCFDensity(fcf, periodForwards, growthRate, perpetualGrowthRate, discountRate, totalCash, totalDebt, outstandingShares) ==
    IF Len(fcf) = 0 THEN Raised("IndexError", 29)
    ELSE IF Len(tlist(periodForwards)) = 0 THEN Raised("IndexError", 32)
    ELSE IF IsZero(Pow(Add(One, discountRate), tlist(periodForwards)[1]))
         THEN Raised("ZeroDivisionError", 32)
    ELSE IF IsZero(Sub(discountRate, perpetualGrowthRate))
         THEN Raised("ZeroDivisionError", 39)
    ELSE IF IsZero(outstandingShares) THEN Raised("ZeroDivisionError", 46)
    ELSE Returned(Div(equityValue(fcf, periodForwards, growthRate,
                                  perpetualGrowthRate, discountRate,
                                  totalCash, totalDebt),
                      outstandingShares))

----------------------------------------------------------------------------
(* The providers, dcf.py lines 50-148.  A page is what requests.get gave:  *)
(* whether the request went through, its status code, how many elements    *)
(* find_all(attrs=...) matches, and the texts of the cells (span or td)    *)
(* of the matched row, in page order.                                      *)

Page(reachable, status_code, tags, cells) == [reachable |-> reachable, status_code |-> status_code, tags |-> tags, cells |-> cells]

(* A cell text: digits with thousands commas and an optional unit suffix,  *)
(* or a word such as the row title or a dash.                              *)
Number(value, suffix) == [kind |-> "number", value |-> value, suffix |-> suffix]

Word == [kind |-> "word", value |-> 0, suffix |-> ""]

(* float(text.replace(removed, '')): parses when what is left is a number. *)
Parses(text, removed) == text.kind = "number" /\ text.suffix \in {"", removed}

float(text) == FromInt(text.value)

Thousand == 1000

Billion == Num(1, 1, 9)

RECURSIVE FirstDigit(_)
FirstDigit(status_code) == IF status_code < 10 THEN status_code ELSE FirstDigit(status_code \div 10)

(* Variant: the 5xx branch missing. *)
CheckHTTPStatusCodeNo5xx(status_code) == FirstDigit(status_code) \in {3, 4}

(* CheckHTTPStatusCode: TRUE when it raises. *)
CheckHTTPStatusCode(status_code) == FirstDigit(status_code) \in {3, 4, 5}

MaxYearsBack == 4

MinYearsBack == 1

Min(a, b) == IF a < b THEN a ELSE b

(* fcftagparent.find_all('span')[2:t+2] *)
fcftag(cells, t) == SubSeq(cells, 3, Min(t + 2, Len(cells)))

(* fcflist after the try statement: the assert fails when fewer than t     *)
(* cells were found, and its handler keeps fcflist[:t].                    *)
fcflist(cells, t) ==
    LET parsed == [i \in 1..Len(fcftag(cells, t)) |-> Mul(float(fcftag(cells, t)[i]), FromInt(Thousand))]
    IN  IF t <= Len(parsed) THEN parsed ELSE SubSeq(parsed, 1, Min(t, Len(parsed)))

GetFreeCashFlow(page, t) ==
    IF ~page.reachable THEN Raised("ConnectionError", 109)
    ELSE IF t > MaxYearsBack THEN Raised("Exception", 111)
    ELSE IF t < MinYearsBack THEN Raised("Exception", 113)
    ELSE IF CheckHTTPStatusCode(page.status_code) THEN Raised("Exception", 116)
    ELSE IF page.tags < 2 THEN Raised("IndexError", 122)
    ELSE IF \E i \in 1..Len(fcftag(page.cells, t)) : ~Parses(fcftag(page.cells, t)[i], ",")
         THEN Raised("ValueError", 124)
    ELSE Returned(Reverse(fcflist(page.cells, t)))

(* GetTotalCash and GetTotalDebt read the second span of the row. *)
GetTotalCash(page) ==
    IF ~page.reachable THEN Raised("ConnectionError", 90)
    ELSE IF CheckHTTPStatusCode(page.status_code) THEN Raised("Exception", 93)
    ELSE IF page.tags < 1 \/ Len(page.cells) < 2 THEN Raised("IndexError", 99)
    ELSE IF ~Parses(page.cells[2], ",") THEN Raised("ValueError", 100)
    ELSE Returned(Mul(float(page.cells[2]), FromInt(Thousand)))

GetTotalDebt(page) ==
    IF ~page.reachable THEN Raised("ConnectionError", 73)
    ELSE IF CheckHTTPStatusCode(page.status_code) THEN Raised("Exception", 76)
    ELSE IF page.tags < 1 \/ Len(page.cells) < 2 THEN Raised("IndexError", 82)
    ELSE IF ~Parses(page.cells[2], ",") THEN Raised("ValueError", 83)
    ELSE Returned(Mul(float(page.cells[2]), FromInt(Thousand)))

(* GetOutstandingShares reads the last td of the row. *)
GetOutstandingShares(page) ==
    IF ~page.reachable THEN Raised("ConnectionError", 53)
    ELSE IF CheckHTTPStatusCode(page.status_code) THEN Raised("Exception", 56)
    ELSE IF page.tags < 1 \/ Len(page.cells) < 1 THEN Raised("IndexError", 64)
    ELSE IF ~Parses(Last(page.cells), "B") THEN Raised("ValueError", 66)
    ELSE Returned(Mul(float(Last(page.cells)), Billion))

----------------------------------------------------------------------------
(* Bounds of the model and the sets the inputs are drawn from.             *)

MaxHistory == 2

MaxPeriod == 2

MaxColumns == 5

Half == Num(5, 1, -1)

RECURSIVE SeqsUpTo(_, _)
SeqsUpTo(S, k) ==
    IF k <= 0 THEN {<< >>}
    ELSE LET shorter == SeqsUpTo(S, k - 1)
         IN  shorter \cup {Append(q, x) : q \in {r \in shorter : Len(r) = k - 1}, x \in S}

FcfValues == {FromInt(-1), FromInt(2)}

Histories == SeqsUpTo(FcfValues, MaxHistory)

Periods == (-1)..MaxPeriod

GrowthRates == {Zero, Half}

PerpetualRates == {Zero, Half}

DiscountRates == {FromInt(-1), Zero, Half, One}

MoneyCells == {0, 1}

SharesCells == {-1, 0, 1, 2}

Money == {FromInt(i) : i \in MoneyCells}

Shares == {FromInt(i) : i \in SharesCells}

StatusCodes == {100, 200, 301, 404, 503}

YearCells == {Number(3, ""), Number(7, "")}

(* The cash-flow row: its title, the trailing-twelve-months column, then   *)
(* the fiscal years, newest first.                                         *)
FcfRows == {<<Word, Number(1, "")>> \o years : years \in SeqsUpTo(YearCells, MaxColumns)}

FcfPages ==
    {Page(TRUE, 200, 2, row) : row \in FcfRows}
    \cup {Page(TRUE, s, 2, <<Word, Number(1, ""), Number(3, "")>>) : s \in StatusCodes}
    \cup {Page(TRUE, 200, 1, <<Word, Number(1, ""), Number(3, "")>>),
          Page(TRUE, 200, 2, <<Word>>),
          Page(TRUE, 200, 2, <<Word, Number(1, ""), Word, Number(3, "")>>),
          Page(FALSE, 0, 0, << >>)}

BalancePages ==
    {Page(TRUE, 200, 1, <<Word, Number(v, "")>>) : v \in MoneyCells}
    \cup {Page(TRUE, s, 1, <<Word, Number(1, "")>>) : s \in StatusCodes}
    \cup {Page(TRUE, 200, 0, << >>),
          Page(TRUE, 200, 1, <<Word>>),
          Page(TRUE, 200, 1, <<Word, Word>>),
          Page(FALSE, 0, 0, << >>)}

SharesPages ==
    {Page(TRUE, 200, 1, <<Word, Number(v, "B")>>) : v \in SharesCells}
    \cup {Page(TRUE, s, 1, <<Word, Number(1, "B")>>) : s \in StatusCodes}
    \cup {Page(TRUE, 200, 0, << >>),
          Page(TRUE, 200, 1, << >>),
          Page(TRUE, 200, 1, <<Word, Number(5, "M")>>),
          Page(FALSE, 0, 0, << >>)}

----------------------------------------------------------------------------
(* State.                                                                  *)

VARIABLES pc, periodForwards, periodBackwards, growthRate, perpetualGrowthRate, discountRate, freeCashFlow, totalCash, totalDebt, outstandingShares, discountedCashFlow, page, events, stdout, passed, previous

vars == <<pc, periodForwards, periodBackwards, growthRate, perpetualGrowthRate, discountRate, freeCashFlow, totalCash, totalDebt, outstandingShares, discountedCashFlow, page, events, stdout, passed, previous>>

args == <<periodForwards, periodBackwards, growthRate, perpetualGrowthRate, discountRate>>

(* A name that is not bound yet. *)
Unset == [kind |-> "unset"]

Line(text) == [line |-> text]

Event(op, status_code, outcome) == [op |-> op, status_code |-> status_code, ok |-> outcome.kind = "return"]

(* Where the program is after a call: an exception nobody catches ends it. *)
After(outcome, next) == IF outcome.kind = "return" THEN next ELSE "raised"

----------------------------------------------------------------------------
(* The main program, dcf.py lines 154-196.                                 *)

Init ==
    /\ pc = "fcf"
    /\ periodForwards \in {0, MaxPeriod}
    /\ periodBackwards \in (MinYearsBack - 1)..(MaxYearsBack + 1)
    /\ growthRate = Half
    /\ perpetualGrowthRate = Zero
    /\ discountRate \in {Zero, One}
    /\ freeCashFlow = Unset
    /\ totalCash = Unset
    /\ totalDebt = Unset
    /\ outstandingShares = Unset
    /\ discountedCashFlow = Unset
    /\ page = Unset
    /\ events = << >>
    /\ stdout = <<Line("Calculating DCF density for")>>
    /\ passed = Unset
    /\ previous = Unset

(* freeCashFlow = GetFreeCashFlow(ticker,header,periodBackwards) *)
MainGetFreeCashFlow ==
    /\ pc = "fcf"
    /\ \E p \in FcfPages :
          LET outcome == GetFreeCashFlow(p, periodBackwards)
          IN  /\ page' = p
              /\ events' = Append(events, Event("GetFreeCashFlow", p.status_code, outcome))
              /\ pc' = After(outcome, "tc")
              /\ IF outcome.kind = "return"
                 THEN /\ freeCashFlow' = outcome.value
                      /\ stdout' = Append(stdout, Line("Free cash flows obtained."))
                 ELSE UNCHANGED <<freeCashFlow, stdout>>
    /\ UNCHANGED <<args, totalCash, totalDebt, outstandingShares, discountedCashFlow, passed, previous>>

(* totalCash = GetTotalCash(ticker,header) *)
MainGetTotalCash ==
    /\ pc = "tc"
    /\ \E p \in BalancePages :
          LET outcome == GetTotalCash(p)
          IN  /\ page' = p
              /\ events' = Append(events, Event("GetTotalCash", p.status_code, outcome))
              /\ pc' = After(outcome, "td")
              /\ IF outcome.kind = "return"
                 THEN /\ totalCash' = outcome.value
                      /\ stdout' = Append(stdout, Line("Total cash obtained."))
                 ELSE UNCHANGED <<totalCash, stdout>>
    /\ UNCHANGED <<args, freeCashFlow, totalDebt, outstandingShares, discountedCashFlow, passed, previous>>

(* totalDebt = GetTotalDebt(ticker,header) *)
MainGetTotalDebt ==
    /\ pc = "td"
    /\ \E p \in BalancePages :
          LET outcome == GetTotalDebt(p)
          IN  /\ page' = p
              /\ events' = Append(events, Event("GetTotalDebt", p.status_code, outcome))
              /\ pc' = After(outcome, "os")
              /\ IF outcome.kind = "return"
                 THEN /\ totalDebt' = outcome.value
                      /\ stdout' = Append(stdout, Line("Total debt obtained."))
                 ELSE UNCHANGED <<totalDebt, stdout>>
    /\ UNCHANGED <<args, freeCashFlow, totalCash, outstandingShares, discountedCashFlow, passed, previous>>

(* outstandingShares = GetOutstandingShares(ticker,header) *)
MainGetOutstandingShares ==
    /\ pc = "os"
    /\ \E p \in SharesPages :
          LET outcome == GetOutstandingShares(p)
          IN  /\ page' = p
              /\ events' = Append(events, Event("GetOutstandingShares", p.status_code, outcome))
              /\ pc' = After(outcome, "calc")
              /\ IF outcome.kind = "return"
                 THEN /\ outstandingShares' = outcome.value
                      /\ stdout' = Append(stdout, Line("Outstanding shares obtained."))
                 ELSE UNCHANGED <<outstandingShares, stdout>>
    /\ UNCHANGED <<args, freeCashFlow, totalCash, totalDebt, discountedCashFlow, passed, previous>>

(* discountedCashFlow = CalculateDCFDensity(...) *)
MainCalculate ==
    /\ pc = "calc"
    /\ LET outcome == CalculateDCFDensity(freeCashFlow, periodForwards, growthRate, perpetualGrowthRate, discountRate, totalCash, totalDebt, outstandingShares)
       IN  /\ discountedCashFlow' = outcome
           /\ events' = Append(events, Event("CalculateDCFDensity", 0, outcome))
           /\ pc' = After(outcome, "print")
    /\ passed' = freeCashFlow
    /\ freeCashFlow' = fcfAfterCall(freeCashFlow)
    /\ UNCHANGED <<args, totalCash, totalDebt, outstandingShares, page, stdout, previous>>

(* print("\nDCF price per share: {} USD\n".format(discountedCashFlow)) *)
MainPrint ==
    /\ pc = "print"
    /\ stdout' = Append(stdout, [line |-> "DCF price per share", value |-> discountedCashFlow.value])
    /\ pc' = "done"
    /\ UNCHANGED <<args, freeCashFlow, totalCash, totalDebt, outstandingShares, discountedCashFlow, page, events, passed, previous>>

Next ==
    \/ MainGetFreeCashFlow
    \/ MainGetTotalCash
    \/ MainGetTotalDebt
    \/ MainGetOutstandingShares
    \/ MainCalculate
    \/ MainPrint

Spec == Init /\ [][Next]_vars

----------------------------------------------------------------------------
(* The engine on its own: a call with any arguments.                       *)

InitEngine ==
    /\ pc = "calc"
    /\ periodForwards \in Periods
    /\ periodBackwards = MaxYearsBack
    /\ growthRate \in GrowthRates
    /\ perpetualGrowthRate \in PerpetualRates
    /\ discountRate \in DiscountRates
    /\ freeCashFlow \in Histories
    /\ totalCash \in Money
    /\ totalDebt \in Money
    /\ outstandingShares \in Shares
    /\ discountedCashFlow = Unset
    /\ page = Unset
    /\ events = << >>
    /\ stdout = << >>
    /\ passed = Unset
    /\ previous = Unset

Call(fcf, cash, debt, shares) ==
    LET outcome == CalculateDCFDensity(fcf, periodForwards, growthRate, perpetualGrowthRate, discountRate, cash, debt, shares)
    IN  /\ discountedCashFlow' = outcome
        /\ events' = Append(events, Event("CalculateDCFDensity", 0, outcome))
        /\ pc' = After(outcome, "print")
        /\ passed' = fcf
        /\ freeCashFlow' = fcfAfterCall(fcf)
        /\ totalCash' = cash
        /\ totalDebt' = debt
        /\ outstandingShares' = shares
        /\ UNCHANGED <<args, page, stdout>>

Remember ==
    /\ pc \in {"print", "raised"}
    /\ previous = Unset
    /\ previous' = [kind |-> "call", fcf |-> passed, totalCash |-> totalCash, totalDebt |-> totalDebt, outstandingShares |-> outstandingShares, outcome |-> discountedCashFlow]

CallFirst ==
    /\ pc = "calc"
    /\ Call(freeCashFlow, totalCash, totalDebt, outstandingShares)
    /\ UNCHANGED previous

CallAgainWithHistory ==
    /\ Remember
    /\ \E h \in Histories \ {freeCashFlow} : Call(h, totalCash, totalDebt, outstandingShares)

CallAgainWithTotalCash ==
    /\ Remember
    /\ \E c \in Money \ {totalCash} : Call(freeCashFlow, c, totalDebt, outstandingShares)

CallAgainWithTotalDebt ==
    /\ Remember
    /\ \E d \in Money \ {totalDebt} : Call(freeCashFlow, totalCash, d, outstandingShares)

CallAgainWithOutstandingShares ==
    /\ Remember
    /\ \E n \in Shares \ {outstandingShares} : Call(freeCashFlow, totalCash, totalDebt, n)

NextEngine == CallFirst

SpecEngine == InitEngine /\ [][NextEngine]_vars

(* Two calls of the engine: the second differs from the first in one       *)
(* argument.                                                               *)
InitCompare ==
    /\ InitEngine
    /\ growthRate = Half

NextCompare ==
    \/ CallFirst
    \/ CallAgainWithHistory
    \/ CallAgainWithTotalCash
    \/ CallAgainWithTotalDebt
    \/ CallAgainWithOutstandingShares

SpecCompare == InitCompare /\ [][NextCompare]_vars

----------------------------------------------------------------------------
(* Properties.                                                             *)

Positive(x) == x.n > 0

Less(a, b) == Sub(a, b).n < 0

LessEq(a, b) == Sub(a, b).n <= 0

EngineCalled == discountedCashFlow.kind # "unset"

EngineReturned == discountedCashFlow.kind = "return"

(* C1: a call with discountRate <= perpetualGrowthRate and otherwise valid *)
(* arguments fails with InvalidModelParameters: it neither returns a value *)
(* nor fails with another kind of error.                                   *)
C1_MisorderedRatesRejected ==
    (/\ EngineCalled
     /\ LessEq(discountRate, perpetualGrowthRate)
     /\ Len(passed) >= 1
     /\ periodForwards >= 1
     /\ Positive(outstandingShares))
    => discountedCashFlow.kind = "InvalidModelParameters"

(* C2: a call with outstandingShares <= 0 fails with                       *)
(* InvalidModelParameters whatever the other arguments are.                *)
C2_NonPositiveSharesRejected ==
    (EngineCalled /\ ~Positive(outstandingShares))
    => discountedCashFlow.kind = "InvalidModelParameters"

(* C3: a call with an empty free-cash-flow history fails with              *)
(* InsufficientData.                                                       *)
C3_EmptyHistoryInsufficientData ==
    (EngineCalled /\ Len(passed) = 0)
    => discountedCashFlow.kind = "InsufficientData"

(* C4: a call with periodForwards < 1 fails with InvalidModelParameters.   *)
C4_NonPositiveHorizonRejected ==
    (EngineCalled /\ periodForwards < 1)
    => discountedCashFlow.kind = "InvalidModelParameters"

(* The sum of the first k explicit cash flows, each the seed grown k times *)
(* and discounted by (1 + discountRate)^k.                                 *)
RECURSIVE ExplicitPresentValue(_, _, _, _)
ExplicitPresentValue(seed, g, r, k) ==
    IF k <= 0 THEN Zero
    ELSE Add(ExplicitPresentValue(seed, g, r, k - 1),
             Div(Mul(seed, Pow(Add(One, g), k)), Pow(Add(One, r), k)))

(* C5: for periodForwards = n >= 1 and discountRate > perpetualGrowthRate  *)
(* a call that returns has summed n + 1 discounted values; the last is the *)
(* terminal value, the n-th explicit cash flow times                       *)
(* (1 + perpetualGrowthRate) / (discountRate - perpetualGrowthRate),       *)
(* discounted by (1 + discountRate)^(n + 1) and not by the n-th power.     *)
C5_TerminalValueOneYearPast ==
    (EngineReturned /\ periodForwards >= 1 /\ Less(perpetualGrowthRate, discountRate))
    => LET n == periodForwards
           f == ffcf(passed, n, growthRate, perpetualGrowthRate, discountRate)
           pv == pvffcf(passed, n, growthRate, perpetualGrowthRate, discountRate)
           lastExplicit == Mul(Last(passed), Pow(Add(One, growthRate), n))
           terminal == Div(Mul(lastExplicit, Add(One, perpetualGrowthRate)),
                           Sub(discountRate, perpetualGrowthRate))
           terminalPV == Div(terminal, Pow(Add(One, discountRate), n + 1))
           total == Add(ExplicitPresentValue(Last(passed), growthRate, discountRate, n), terminalPV)
       IN  /\ Len(f) = n + 1
           /\ Len(pv) = n + 1
           /\ f[n + 1] = terminal
           /\ pv[n + 1] = terminalPV
           /\ (~IsZero(discountRate) => pv[n + 1] # Div(terminal, Pow(Add(One, discountRate), n)))
           /\ discountedCashFlow.value = Div(Sub(Add(total, totalCash), totalDebt), outstandingShares)

C5_Witness ==
    /\ EngineReturned
    /\ periodForwards >= 2
    /\ Less(perpetualGrowthRate, discountRate)
    /\ ~IsZero(perpetualGrowthRate)
    /\ ~IsZero(growthRate)

(* C6: for periodForwards = n >= 1 the k-th explicit projected cash flow,  *)
(* k in 1..n, is the last history element grown k times and is discounted  *)
(* by (1 + discountRate)^k; with growthRate = 0 it equals that element.    *)
C6_SeedThenGrow ==
    (EngineReturned /\ periodForwards >= 1)
    => LET n == periodForwards
           f == ffcf(passed, n, growthRate, perpetualGrowthRate, discountRate)
           pv == pvffcf(passed, n, growthRate, perpetualGrowthRate, discountRate)
       IN  /\ f[1] = Mul(Last(passed), Add(One, growthRate))
           /\ \A k \in 1..n :
                 /\ f[k] = Mul(Last(passed), Pow(Add(One, growthRate), k))
                 /\ k > 1 => f[k] = Mul(f[k - 1], Add(One, growthRate))
                 /\ pv[k] = Div(f[k], Pow(Add(One, discountRate), k))
                 /\ IsZero(growthRate) => f[k] = Last(passed)

C6_Witness ==
    /\ EngineReturned
    /\ periodForwards >= 2
    /\ ~IsZero(growthRate)
    /\ Len(passed) >= 2

(* C7: of two calls that both return and differ in one argument, the one   *)
(* with the larger totalDebt returns strictly less, the one with the       *)
(* larger totalCash strictly more, and, the equity value being positive,   *)
(* the one with the larger outstandingShares strictly less.                *)
C7_Monotone ==
    (/\ previous.kind = "call"
     /\ previous.outcome.kind = "return"
     /\ EngineReturned)
    => LET before == previous.outcome.value
           now == discountedCashFlow.value
           equity == equityValue(passed, periodForwards, growthRate, perpetualGrowthRate, discountRate, totalCash, totalDebt)
       IN  /\ Less(previous.totalDebt, totalDebt) => Less(now, before)
           /\ Less(totalDebt, previous.totalDebt) => Less(before, now)
           /\ Less(previous.totalCash, totalCash) => Less(before, now)
           /\ Less(totalCash, previous.totalCash) => Less(now, before)
           /\ (Positive(equity) /\ Less(previous.outstandingShares, outstandingShares)) => Less(now, before)
           /\ (Positive(equity) /\ Less(outstandingShares, previous.outstandingShares)) => Less(before, now)

(* C8: a history GetFreeCashFlow returns has 1 to 4 entries, oldest first: *)
(* its last entry is the newest fiscal year of the page, the first year    *)
(* column after the trailing-twelve-months one.                            *)
C8_HistoryOneToFourOldestFirst ==
    (Len(events) = 1 /\ events[1].ok)
    => /\ Len(freeCashFlow) >= 1
       /\ Len(freeCashFlow) <= 4
       /\ \A i \in 1..Len(freeCashFlow) :
             freeCashFlow[i] = Mul(float(page.cells[3 + Len(freeCashFlow) - i]), FromInt(Thousand))

ProviderOrder == <<"GetFreeCashFlow", "GetTotalCash", "GetTotalDebt", "GetOutstandingShares">>

PricePrinted == \E i \in 1..Len(stdout) : stdout[i].line = "DCF price per share"

(* C9: the engine is invoked at most once and only after the four          *)
(* providers returned, in the order free cash flow, total cash, total      *)
(* debt, outstanding shares; a provider call that fails, as every one does *)
(* whose status is 3xx, 4xx or 5xx, is the last call made, and then the    *)
(* engine is not invoked and no price is printed.                          *)
C9_EngineOnceAfterProviders ==
    /\ Len(events) <= 5
    /\ \A i \in 1..Len(events) :
          /\ i <= 4 => events[i].op = ProviderOrder[i]
          /\ i = 5 => events[i].op = "CalculateDCFDensity"
          /\ (i <= 4 /\ FirstDigit(events[i].status_code) \in {3, 4, 5}) => ~events[i].ok
          /\ ~events[i].ok => (i = Len(events) /\ pc = "raised" /\ ~PricePrinted)
    /\ PricePrinted => (Len(events) = 5 /\ events[5].ok)
    /\ pc \in {"calc", "print", "done"} => Len(events) >= 4

C9_Witness ==
    /\ pc = "done"
    /\ PricePrinted
    /\ Len(events) = 5

(* C10: the outcome depends on the history only through its last element:  *)
(* two calls with non-empty histories that end alike and with the other    *)
(* arguments alike have the same outcome; and the call leaves the list it  *)
(* was passed as it was.                                                   *)
C10_OnlyLastElement ==
    /\ EngineCalled => freeCashFlow = passed
    /\ (/\ previous.kind = "call"
        /\ previous.totalCash = totalCash
        /\ previous.totalDebt = totalDebt
        /\ previous.outstandingShares = outstandingShares
        /\ Len(previous.fcf) >= 1
        /\ Len(passed) >= 1
        /\ Last(previous.fcf) = Last(passed))
       => previous.outcome = discountedCashFlow

C10_Witness ==
    /\ previous.kind = "call"
    /\ EngineReturned
    /\ previous.totalCash = totalCash
    /\ previous.totalDebt = totalDebt
    /\ previous.outstandingShares = outstandingShares
    /\ Len(previous.fcf) >= 1
    /\ Len(passed) > Len(previous.fcf)
    /\ Last(previous.fcf) = Last(passed)
    /\ passed[1] # Last(passed)


====
